---------------------------- MODULE Spec2Model ----------------------------
(***************************************************************************)
(* Keyword classification (checkKeywordStatus) and mock keyword analysis   *)
(* (mockAnalysisForKeywords) of the useKeywordAnalysis hook, together with *)
(* generateMockResponse of mockDataUtils.                                  *)
(*                                                                         *)
(* A JavaScript string is a sequence of one-character strings.  A          *)
(* relevance is an integer number of hundredths (0.95 is 95).              *)
(***************************************************************************)
EXTENDS Integers, Sequences, FiniteSets, TLC

VARIABLES results, response, mock, check

vars == <<results, response, mock, check>>

(***************************************************************************)
(* Bounds of the explored inputs.                                          *)
(***************************************************************************)
\* pieces of a content plus target keywords of one mockAnalysisForKeywords
\* call, and pieces of a text given to generateMockResponse
MaxInput == 3
\* longest run of distinct one-letter target keywords (and content words)
MaxRun == 16
\* longest keywords list and longest entities list of a classified result
MaxEntries == 1

(***************************************************************************)
(* Characters and the String.prototype methods the code calls.             *)
(***************************************************************************)
UpperLetters ==
    <<"A","B","C","D","E","F","G","H","I","J","K","L","M",
      "N","O","P","Q","R","S","T","U","V","W","X","Y","Z">>

LowerLetters ==
    <<"a","b","c","d","e","f","g","h","i","j","k","l","m",
      "n","o","p","q","r","s","t","u","v","w","x","y","z">>

Digits == {"0","1","2","3","4","5","6","7","8","9"}

Range(s) == {s[i] : i \in 1..Len(s)}

\* \s of a regular expression, and what trim() strips
WhiteSpace == {" ", "\t", "\n", "\r"}

\* \w of a regular expression
IsWordChar(c) == c \in Range(UpperLetters) \cup Range(LowerLetters) \cup Digits \cup {"_"}

toLowerCaseChar(c) ==
    IF c \in Range(UpperLetters)
    THEN LowerLetters[CHOOSE i \in 1..26 : UpperLetters[i] = c]
    ELSE c

toUpperCaseChar(c) ==
    IF c \in Range(LowerLetters)
    THEN UpperLetters[CHOOSE i \in 1..26 : LowerLetters[i] = c]
    ELSE c

toLowerCase(s) == [i \in 1..Len(s) |-> toLowerCaseChar(s[i])]

toUpperCase(s) == [i \in 1..Len(s) |-> toUpperCaseChar(s[i])]

RECURSIVE trimStart(_)
trimStart(s) ==
    IF s # <<>> /\ Head(s) \in WhiteSpace THEN trimStart(Tail(s)) ELSE s

RECURSIVE trimEnd(_)
trimEnd(s) ==
    IF s # <<>> /\ s[Len(s)] \in WhiteSpace
    THEN trimEnd(SubSeq(s, 1, Len(s) - 1))
    ELSE s

trim(s) == trimEnd(trimStart(s))

\* sub occurs in s at offset p (0-based), compared character by character
OccursAt(s, sub, p) ==
    /\ p >= 0
    /\ p + Len(sub) <= Len(s)
    /\ \A i \in 1..Len(sub) : s[p + i] = sub[i]

includes(s, sub) == \E p \in 0..(Len(s) - Len(sub)) : OccursAt(s, sub, p)

\* s.split(/\s+/): a maximal run of white space separates two pieces; a run
\* at the start or at the end leaves an empty piece there
RECURSIVE splitFrom(_, _, _)
splitFrom(s, i, cur) ==
    IF i > Len(s) THEN <<cur>>
    ELSE IF s[i] \in WhiteSpace
         THEN IF i > 1 /\ s[i - 1] \in WhiteSpace
              THEN splitFrom(s, i + 1, cur)
              ELSE <<cur>> \o splitFrom(s, i + 1, <<>>)
         ELSE splitFrom(s, i + 1, Append(cur, s[i]))

split(s) == splitFrom(s, 1, <<>>)

\* words.join(" ")
RECURSIVE join(_)
join(words) ==
    IF words = <<>> THEN <<>>
    ELSE IF Len(words) = 1 THEN words[1]
    ELSE words[1] \o <<" ">> \o join(Tail(words))

(***************************************************************************)
(* Regular expressions built from a keyword.                               *)
(***************************************************************************)
\* the class [-\/\\^$*+?.()|[\]{}] of the two replace() calls
RegExpSyntaxChars ==
    {"-", "/", "\\", "^", "$", "*", "+", "?", ".", "(", ")", "|", "[", "]", "{", "}"}

\* s.replace(/[-\/\\^$*+?.()|[\]{}]/g, '\\$&')
RECURSIVE escapeRegExp(_)
escapeRegExp(s) ==
    IF s = <<>> THEN <<>>
    ELSE IF Head(s) \in RegExpSyntaxChars
         THEN <<"\\", Head(s)>> \o escapeRegExp(Tail(s))
         ELSE <<Head(s)>> \o escapeRegExp(Tail(s))

\* The atoms new RegExp(source) reads from the keyword part of its source:
\* a backslash makes the next character a literal, an unescaped dot matches
\* any character but a line break, every other character is a literal.
RECURSIVE patternAtoms(_)
patternAtoms(src) ==
    IF src = <<>> THEN <<>>
    ELSE IF Head(src) = "\\" /\ Len(src) >= 2
         THEN <<[any |-> FALSE, ch |-> src[2]]>> \o patternAtoms(Tail(Tail(src)))
         ELSE <<[any |-> Head(src) = ".", ch |-> Head(src)]>> \o patternAtoms(Tail(src))

\* one atom against one character under the i flag
AtomMatches(atom, c) ==
    IF atom.any THEN c \notin {"\n", "\r"}
    ELSE toUpperCaseChar(atom.ch) = toUpperCaseChar(c)

\* the atoms match text from offset p (0-based)
AtomsMatchAt(atoms, text, p) ==
    /\ p + Len(atoms) <= Len(text)
    /\ \A i \in 1..Len(atoms) : AtomMatches(atoms[i], text[p + i])

\* what (^|\s|[,.;!?]) and ($|\s|[,.;!?]) consume
BoundaryChars == WhiteSpace \cup {",", ".", ";", "!", "?"}

\* a faulty exactRegexTest: the pattern without its punctuation class,
\* /(^|\s)source($|\s)/i
exactRegexTestSpaceOnly(source, text) ==
    LET atoms == patternAtoms(source)
        n == Len(atoms)
    IN  \E p \in 0..(Len(text) - n) :
            /\ AtomsMatchAt(atoms, text, p)
            /\ (p = 0 \/ text[p] \in WhiteSpace)
            /\ (p + n = Len(text) \/ text[p + n + 1] \in WhiteSpace)

\* the test of /(^|\s|[,.;!?])source($|\s|[,.;!?])/i on text (lines 92-93)
exactRegexTest(source, text) ==
    LET atoms == patternAtoms(source)
        n == Len(atoms)
    IN  \E p \in 0..(Len(text) - n) :
            /\ AtomsMatchAt(atoms, text, p)
            /\ (p = 0 \/ text[p] \in BoundaryChars)
            /\ (p + n = Len(text) \/ text[p + n + 1] \in BoundaryChars)

\* \b at offset p of text: a word character on exactly one side
WordBoundaryAt(text, p) ==
    LET before == p >= 1 /\ IsWordChar(text[p])
        after == p < Len(text) /\ IsWordChar(text[p + 1])
    IN  before # after

\* the test of /\bsource\b/i on text (line 22)
wordRegexTest(source, text) ==
    LET atoms == patternAtoms(source)
        n == Len(atoms)
    IN  \E p \in 0..(Len(text) - n) :
            /\ AtomsMatchAt(atoms, text, p)
            /\ WordBoundaryAt(text, p)
            /\ WordBoundaryAt(text, p + n)

(***************************************************************************)
(* JavaScript values: undefined, null, and result objects.  An object      *)
(* lists the properties it has; a property it lacks holds <<>> here.       *)
(***************************************************************************)
Undefined == [kind |-> "undefined"]

Null == [kind |-> "null"]

Object(has, keywords, entities, optimizedText) ==
    [kind |-> "object", has |-> has, keywords |-> keywords,
     entities |-> entities, optimizedText |-> optimizedText]

\* !v for a value that is undefined, null or an object
IsNullish(v) == v.kind # "object"

BRAS == <<"b", "r", "a", "s">>

(***************************************************************************)
(* keywordUtils is not part of the reviewed sources.  isExactKeywordMatch  *)
(* is the case- and white-space-insensitive equality the specification     *)
(* gives; the other two are black boxes whose answers are the inputs       *)
(* ext.partial and ext.top of a call.                                      *)
(***************************************************************************)
isExactKeywordMatch(keywordText, targetKeyword) ==
    trim(toLowerCase(keywordText)) = trim(toLowerCase(targetKeyword))

isPartialKeywordMatch(keywordText, targetKeyword, ext) == ext.partial

TopPositions == 10

isKeywordInTopPositions(keyword, keywords, topN, ext) ==
    /\ SubSeq(keywords, 1, IF Len(keywords) < topN THEN Len(keywords) ELSE topN) # <<>>
    /\ ext.top

(***************************************************************************)
(* checkKeywordStatus(keyword, resultsToUse = results)                     *)
(***************************************************************************)
\* the default parameter: an omitted (undefined) argument takes results
defaultResultsToUse(arg, hookResults) ==
    IF arg.kind = "undefined" THEN hookResults ELSE arg

\* lines 21-22
directTextMatch(lowerKeyword, optimizedText) ==
    /\ optimizedText # <<>>
    /\ includes(lowerKeyword, BRAS)
    /\ wordRegexTest(escapeRegExp(lowerKeyword), toLowerCase(optimizedText))

\* lines 42-45
substringMatch(lowerKeyword, keywords) ==
    \E i \in 1..Len(keywords) :
        \/ includes(trim(toLowerCase(keywords[i].text)), lowerKeyword)
        \/ includes(lowerKeyword, trim(toLowerCase(keywords[i].text)))

\* lines 57-61
entityMatch(lowerKeyword, r) ==
    /\ "entities" \in r.has
    /\ Len(r.entities) > 0
    /\ \E i \in 1..Len(r.entities) :
           \/ includes(toLowerCase(r.entities[i].text), lowerKeyword)
           \/ includes(lowerKeyword, toLowerCase(r.entities[i].text))

\* line 28
exactKeywordMatch(keyword, keywords) ==
    \E i \in 1..Len(keywords) : isExactKeywordMatch(keywords[i].text, keyword)

\* line 35
partialKeywordMatch(keyword, keywords, ext) ==
    \E i \in 1..Len(keywords) : isPartialKeywordMatch(keywords[i].text, keyword, ext)

\* resultsToUse.optimizedText || ""
optimizedTextOf(resultsToUse) ==
    IF "optimizedText" \in resultsToUse.has THEN resultsToUse.optimizedText ELSE <<>>

\* a faulty guard: !resultsToUse || !keyword
missingInputWithoutKeywordsTest(keyword, resultsToUse) ==
    \/ IsNullish(resultsToUse)
    \/ keyword = <<>>

\* line 11: !resultsToUse || !resultsToUse.keywords || !keyword
missingInput(keyword, resultsToUse) ==
    \/ IsNullish(resultsToUse)
    \/ "keywords" \notin resultsToUse.has
    \/ keyword = <<>>

\* a faulty chain: the entity rule placed before the substring rule
matchTierEntityFirst(keyword, resultsToUse, ext) ==
    LET lowerKeyword == trim(toLowerCase(keyword))
        keywords == resultsToUse.keywords
    IN  IF directTextMatch(lowerKeyword, optimizedTextOf(resultsToUse)) THEN "exact"
        ELSE IF exactKeywordMatch(keyword, keywords) THEN "exact"
        ELSE IF partialKeywordMatch(keyword, keywords, ext) THEN "partial"
        ELSE IF entityMatch(lowerKeyword, resultsToUse) THEN "exact"
        ELSE IF substringMatch(lowerKeyword, keywords) THEN "partial"
        ELSE IF isKeywordInTopPositions(keyword, keywords, TopPositions, ext)
             THEN "relevant"
        ELSE "missing"

\* lines 17-70, the chain of rules
matchTier(keyword, resultsToUse, ext) ==
    LET lowerKeyword == trim(toLowerCase(keyword))
        keywords == resultsToUse.keywords
    IN  IF directTextMatch(lowerKeyword, optimizedTextOf(resultsToUse)) THEN "exact"
        ELSE IF exactKeywordMatch(keyword, keywords) THEN "exact"
        ELSE IF partialKeywordMatch(keyword, keywords, ext) THEN "partial"
        ELSE IF substringMatch(lowerKeyword, keywords) THEN "partial"
        ELSE IF isKeywordInTopPositions(keyword, keywords, TopPositions, ext)
             THEN "relevant"
        ELSE IF entityMatch(lowerKeyword, resultsToUse) THEN "exact"
        ELSE "missing"

checkKeywordStatus(keyword, resultsToUse, ext) ==
    IF missingInput(keyword, resultsToUse) THEN "missing"
    ELSE matchTier(keyword, resultsToUse, ext)

(***************************************************************************)
(* mockAnalysisForKeywords(optimizedContent, targetKeywords)               *)
(***************************************************************************)
KeywordEntry(text, relevance) == [text |-> text, relevance |-> relevance, count |-> 1]

ProductEntity(text, relevance, confidence) ==
    [type |-> "ProductType", text |-> text, relevance |-> relevance,
     confidence |-> confidence, count |-> 1]

PARTIAL == <<" ", "(", "p", "a", "r", "t", "i", "a", "l", ")">>

ExactRelevance == 95

ExactConfidence == 90

PartialRelevance == 80

PhraseEntityRelevance == 70

PhraseEntityConfidence == 80

\* 0.7 - (0.1 * j): 0.6, then a little under 0.5 and under 0.4 in binary
\* floating point, which compare like 60, 50 and 40
phraseRelevance(j) == 70 - (10 * j)

\* one pass of the loop of lines 85-126 over acc = [keywords, entities]
processTargetKeyword(keyword, optimizedContent, acc) ==
    LET lowerKeyword == trim(toLowerCase(keyword))
        lowerContent == toLowerCase(optimizedContent)
        exactMatch == exactRegexTest(escapeRegExp(lowerKeyword), lowerContent)
    IN  IF exactMatch
        THEN [keywords |-> Append(acc.keywords, KeywordEntry(keyword, ExactRelevance)),
              entities |->
                  IF includes(toLowerCase(keyword), BRAS)
                  THEN Append(acc.entities,
                              ProductEntity(keyword, ExactRelevance, ExactConfidence))
                  ELSE acc.entities]
        ELSE IF includes(lowerContent, lowerKeyword)
        THEN [keywords |->
                  Append(acc.keywords, KeywordEntry(keyword \o PARTIAL, PartialRelevance)),
              entities |-> acc.entities]
        ELSE acc

RECURSIVE targetLoop(_, _, _)
targetLoop(targetKeywords, optimizedContent, acc) ==
    IF targetKeywords = <<>> THEN acc
    ELSE targetLoop(Tail(targetKeywords), optimizedContent,
                    processTargetKeyword(Head(targetKeywords), optimizedContent, acc))

MinPhraseLength == 3

MaxPhraseWords == 3

\* the body of the inner loop of lines 131-159 for words[i .. i+j-1] (i 0-based)
addPhrase(words, i, j, acc) ==
    IF i + j > Len(words) THEN acc
    ELSE
      LET phrase == join(SubSeq(words, i + 1, i + j))
      IN  IF \/ Len(phrase) < MinPhraseLength
             \/ \E k \in 1..Len(acc.keywords) :
                    toLowerCase(acc.keywords[k].text) = toLowerCase(phrase)
          THEN acc
          ELSE [keywords |-> Append(acc.keywords, KeywordEntry(phrase, phraseRelevance(j))),
                entities |->
                    IF /\ includes(toLowerCase(phrase), BRAS)
                       /\ ~ \E k \in 1..Len(acc.entities) :
                              toLowerCase(acc.entities[k].text) = toLowerCase(phrase)
                    THEN Append(acc.entities,
                                ProductEntity(phrase, PhraseEntityRelevance,
                                              PhraseEntityConfidence))
                    ELSE acc.entities]

\* the inner loop of lines 131-159, from j on
RECURSIVE phrasesAt(_, _, _, _)
phrasesAt(words, i, j, acc) ==
    IF j > MaxPhraseWords THEN acc
    ELSE phrasesAt(words, i, j + 1, addPhrase(words, i, j, acc))

\* the outer loop of lines 129-160, from i on (i 0-based)
RECURSIVE phraseLoop(_, _, _)
phraseLoop(words, i, acc) ==
    IF i >= Len(words) THEN acc
    ELSE phraseLoop(words, i + 1, phrasesAt(words, i, 1, acc))

\* where entry i goes under a stable sort by descending relevance: after
\* every entry of higher relevance and every earlier entry of the same
sortedPosition(entries, i) ==
    1 + Cardinality({k \in 1..Len(entries) :
                        \/ entries[k].relevance > entries[i].relevance
                        \/ (entries[k].relevance = entries[i].relevance /\ k < i)})

\* a faulty sortByRelevance: the comparator reversed, a.relevance - b.relevance
sortAscending(entries) ==
    [p \in 1..Len(entries) |->
        entries[CHOOSE i \in 1..Len(entries) :
                    p = 1 + Cardinality({k \in 1..Len(entries) :
                            \/ entries[k].relevance < entries[i].relevance
                            \/ (entries[k].relevance = entries[i].relevance /\ k < i)})]]

\* entries.sort((a, b) => b.relevance - a.relevance), a stable sort
sortByRelevance(entries) ==
    [p \in 1..Len(entries) |->
        entries[CHOOSE i \in 1..Len(entries) : sortedPosition(entries, i) = p]]

TopKeywords == 15

\* a faulty slice: slice(-n), the last n entries
sliceLast(entries, n) ==
    SubSeq(entries, IF Len(entries) < n THEN 1 ELSE Len(entries) - n + 1, Len(entries))

\* slice(0, n)
slice(entries, n) == SubSeq(entries, 1, IF Len(entries) < n THEN Len(entries) ELSE n)

\* { ...results, optimizedText: optimizedContent }
spreadResults(hookResults, optimizedContent) ==
    IF IsNullish(hookResults)
    THEN Object({"optimizedText"}, <<>>, <<>>, optimizedContent)
    ELSE Object(hookResults.has \cup {"optimizedText"}, hookResults.keywords,
                hookResults.entities, optimizedContent)

\* mockKeywords and mockEntities when the two loops are done (line 160)
mockCandidates(optimizedContent, targetKeywords) ==
    phraseLoop(split(optimizedContent), 0,
               targetLoop(targetKeywords, optimizedContent,
                          [keywords |-> <<>>, entities |-> <<>>]))

TypeError == [kind |-> "TypeError"]

\* a faulty merge: the source's entities spread first
mergeEntitiesSourceFirst(mockEntities, hookResults) ==
    IF "entities" \in hookResults.has /\ Len(hookResults.entities) > 0
    THEN hookResults.entities \o mockEntities
    ELSE mockEntities

\* lines 168-172, for results that are an object
mergeEntities(mockEntities, hookResults) ==
    IF "entities" \in hookResults.has /\ Len(hookResults.entities) > 0
    THEN mockEntities \o hookResults.entities
    ELSE mockEntities

\* what the call returns, or the TypeError that reading results.entities of
\* null or undefined (line 168) throws
mockAnalysisForKeywords(hookResults, optimizedContent, targetKeywords) ==
    LET mockResults == spreadResults(hookResults, optimizedContent)
        cand == mockCandidates(optimizedContent, targetKeywords)
        keywords == slice(sortByRelevance(cand.keywords), TopKeywords)
    IN  IF IsNullish(hookResults) THEN TypeError
        ELSE Object(mockResults.has \cup {"keywords", "entities"}, keywords,
                    mergeEntities(cand.entities, hookResults), optimizedContent)

(***************************************************************************)
(* mockDataUtils: generateMockResponse(text, features, limits).  Of the    *)
(* response only the keywords and entities lists are modelled in full;     *)
(* every other property is modelled by its presence.                       *)
(***************************************************************************)
\* the punctuation class that getFrequentWords deletes (line 10); the
\* string "backtick" stands for the grave accent character
StrippedChars ==
    {".", ",", "/", "#", "!", "$", "%", "^", "&", "*", ";", ":", "{", "}", "=",
     "-", "_", "backtick", "~", "(", ")"}

removeStripped(s) == SelectSeq(s, LAMBDA c : c \notin StrippedChars)

FrequentWordOver == 3

MaxFrequentWords == 10

RECURSIVE countWord(_, _)
countWord(words, w) ==
    IF words = <<>> THEN 0
    ELSE (IF Head(words) = w THEN 1 ELSE 0) + countWord(Tail(words), w)

\* Object.entries(wordFrequency): each counted word once, in the order of
\* its first occurrence (no word of the modelled texts is a number)
RECURSIVE frequencyEntries(_, _)
frequencyEntries(words, k) ==
    IF k > Len(words) THEN <<>>
    ELSE IF /\ Len(words[k]) > FrequentWordOver
            /\ ~ \E m \in 1..(k - 1) : words[m] = words[k]
         THEN <<[text |-> words[k], relevance |-> countWord(words, words[k])]>>
              \o frequencyEntries(words, k + 1)
         ELSE frequencyEntries(words, k + 1)

\* lines 8-24; the sort is the stable descending sort, here on the count
getFrequentWords(text) ==
    LET words == split(removeStripped(toLowerCase(text)))
        sorted == sortByRelevance(frequencyEntries(words, 1))
    IN  slice([i \in 1..Len(sorted) |-> sorted[i].text], MaxFrequentWords)

\* lines 29-37
generateMockKeywords(words) ==
    [i \in 1..Len(words) |-> [text |-> words[i], relevance |-> 98 - ((i - 1) * 4)]]

possibleEntities ==
    << [text |-> <<"T","r","i","u","m","p","h">>, type |-> "Organization"],
       [text |-> <<"b","r","a","s">>, type |-> "Product"],
       [text |-> <<"s","t","r","a","p","s">>, type |-> "Feature"],
       [text |-> <<"s","u","p","p","o","r","t">>, type |-> "Concept"],
       [text |-> <<"d","e","s","i","g","n">>, type |-> "Concept"],
       [text |-> <<"f","a","b","r","i","c","s">>, type |-> "Material"],
       [text |-> <<"d","r","e","s","s","e","s">>, type |-> "Product"],
       [text |-> <<"t","o","p","s">>, type |-> "Product"] >>

\* lines 42-64
generateMockEntities(text) ==
    LET found == SelectSeq(possibleEntities,
                           LAMBDA e : includes(toLowerCase(text), toLowerCase(e.text)))
    IN  [i \in 1..Len(found) |->
            [text |-> found[i].text, type |-> found[i].type,
             relevance |-> 95 - ((i - 1) * 5)]]

FeatureNames == {"keywords", "entities", "concepts", "categories", "classifications"}

\* a faulty generateMockResponse: the keywords list set whatever the features
generateMockResponseAlwaysKeywords(text, features) ==
    Object({"language", "usage", "keywords"} \cup features,
           generateMockKeywords(getFrequentWords(text)),
           IF "entities" \in features THEN generateMockEntities(text) ELSE <<>>,
           <<>>)

\* lines 278-313; features is the set of the features switched on
generateMockResponse(text, features) ==
    Object({"language", "usage"} \cup features,
           IF "keywords" \in features
           THEN generateMockKeywords(getFrequentWords(text)) ELSE <<>>,
           IF "entities" \in features THEN generateMockEntities(text) ELSE <<>>,
           <<>>)

(***************************************************************************)
(* Inputs.                                                                 *)
(***************************************************************************)
\* every sequence of at most n elements of S
RECURSIVE SeqsUpTo(_, _)
SeqsUpTo(S, n) ==
    IF n <= 0 THEN {<<>>}
    ELSE LET shorter == SeqsUpTo(S, n - 1)
         IN  shorter \cup {Append(q, x) : q \in shorter, x \in S}

RECURSIVE Flatten(_)
Flatten(pieces) ==
    IF pieces = <<>> THEN <<>> ELSE Head(pieces) \o Flatten(Tail(pieces))

ContentPieces ==
    { <<"b","r","a","s">>, <<" ","B","r","a","s">>, <<"x","y">>,
      <<" ">>, <<",">>, <<"-">> }

\* target keywords of a mock analysis
TargetPool ==
    { <<>>, <<"b","r","a","s">>, <<" ","B","R","A","S"," ">>,
      <<"b","r","a">>, <<"x","y">> }

\* keywords classified against the hook's results
KeywordPool ==
    TargetPool \cup { <<" ">>, <<"b","r","a","s","-">>, <<"x","b","r","a","s">> }

TextPieces ==
    { <<"b","r","a","s"," ">>, <<"T","o","p","s",","," ">>, <<"x","y"," ">> }

\* the one-letter keywords a, b, c, ... of the long runs
RunTargets(n) == [i \in 1..n |-> <<LowerLetters[i]>>]

\* "a,b,c,..." (n letters with commas between), and "abc..." (n letters)
RunContent(n) ==
    [i \in 1..(2 * n - 1) |->
        IF i % 2 = 1 THEN LowerLetters[(i + 1) \div 2] ELSE ","]

RunWordContent(n) == [i \in 1..n |-> LowerLetters[i]]

\* the two examples of the specification's testable properties
GREAT_SUPPORT ==
    <<"G","r","e","a","t"," ","s","u","p","p","o","r","t"," ",
      "f","o","r"," ","e","v","e","r","y","o","n","e">>

SUPPORT == <<"s","u","p","p","o","r","t">>

COMFORT_DRIVEN ==
    <<"v","e","r","y"," ","c","o","m","f","o","r","t","-","d","r","i","v","e","n"," ",
      "d","e","s","i","g","n">>

COMFORTABLE == <<"c","o","m","f","o","r","t","a","b","l","e">>

COMFORT == <<"c","o","m","f","o","r","t">>

Examples ==
    { [content |-> GREAT_SUPPORT, targets |-> <<SUPPORT>>],
      [content |-> COMFORT_DRIVEN, targets |-> <<COMFORTABLE>>],
      [content |-> COMFORT_DRIVEN, targets |-> <<COMFORT, COMFORTABLE>>] }

SourceEntities ==
    << [text |-> <<"T","r","i","u","m","p","h">>, type |-> "Organization", relevance |-> 95],
       [text |-> <<"b","r","a","s">>, type |-> "Product", relevance |-> 90] >>

\* the results a hook is created with before a mock analysis
HookResults ==
    { Undefined, Null,
      Object({"keywords"}, <<KeywordEntry(<<"x","y">>, 98)>>, <<>>, <<>>),
      Object({"keywords", "entities"}, <<KeywordEntry(<<"x","y">>, 98)>>, <<>>, <<>>),
      Object({"keywords", "entities"}, <<KeywordEntry(<<"x","y">>, 98)>>, SourceEntities, <<>>) }

\* the results a hook is created with before a classification
EntryTexts == { <<"b","r","a","s">>, <<" ","X","Y"," ">>, <<"x","y"," ","b","r","a","s">> }

EntityTexts == { <<"b","r","a","s">>, <<"b","r","a"," ">>, <<"X","Y">> }

OptimizedTexts ==
    { <<"x","y"," ","B","r","a","s">>, <<"b","r","a","s","-"," ","x","y">>,
      <<"x","y","b","r","a","s">>, <<"x","y">> }

KeywordLists ==
    {[i \in 1..Len(q) |-> KeywordEntry(q[i], 98 - (4 * (i - 1)))] :
        q \in SeqsUpTo(EntryTexts, MaxEntries)}

EntityLists ==
    {[i \in 1..Len(q) |-> ProductEntity(q[i], 95 - (5 * (i - 1)), 90)] :
        q \in SeqsUpTo(EntityTexts, MaxEntries)}

ClassifiedResults ==
    {Undefined, Null, Object({}, <<>>, <<>>, <<>>)}
    \cup {Object({"keywords"}, k, <<>>, <<>>) : k \in KeywordLists}
    \cup {Object({"keywords", "entities"}, k, e, <<>>) :
              k \in KeywordLists, e \in EntityLists}
    \cup {Object({"entities", "optimizedText"}, <<>>, e, t) :
              e \in EntityLists, t \in OptimizedTexts}
    \cup {Object({"keywords", "entities", "optimizedText"}, k, e, t) :
              k \in KeywordLists, e \in EntityLists, t \in OptimizedTexts}

\* the answers of the two black-box utilities during one call
Externals == [partial : BOOLEAN, top : BOOLEAN]

NotCalled == [called |-> FALSE]

(***************************************************************************)
(* The state machine.  A hook instance is closed over results; response,   *)
(* mock and check hold the call made of generateMockResponse, of           *)
(* mockAnalysisForKeywords and of checkKeywordStatus with what it          *)
(* returned.  A behaviour follows one use: a response is generated, or a   *)
(* mock analysis is run and its result classified, or the hook's own       *)
(* results are classified.                                                 *)
(***************************************************************************)
Idle == ~response.called /\ ~mock.called /\ ~check.called

Init ==
    /\ results \in HookResults
    /\ response = NotCalled
    /\ mock = NotCalled
    /\ check = NotCalled

InitRoundTrip ==
    /\ results \in {r \in HookResults : r.kind = "object" /\ "entities" \in r.has}
    /\ response = NotCalled
    /\ mock = NotCalled
    /\ check = NotCalled

InitClassify ==
    /\ results \in ClassifiedResults
    /\ response = NotCalled
    /\ mock = NotCalled
    /\ check = NotCalled

GenerateMockResponse ==
    /\ Idle
    /\ \E q \in SeqsUpTo(TextPieces, MaxInput), features \in SUBSET FeatureNames :
           response' = [called |-> TRUE, text |-> Flatten(q), features |-> features,
                        out |-> generateMockResponse(Flatten(q), features)]
    /\ UNCHANGED <<results, mock, check>>

MockCall(optimizedContent, targetKeywords) ==
    /\ mock' = [called |-> TRUE,
                optimizedContent |-> optimizedContent,
                targetKeywords |-> targetKeywords,
                candidates |-> mockCandidates(optimizedContent, targetKeywords),
                out |-> mockAnalysisForKeywords(results, optimizedContent, targetKeywords)]
    /\ UNCHANGED <<results, response, check>>

\* any content and any target keywords within MaxInput
MockAnalysis ==
    /\ Idle
    /\ \E n \in 0..MaxInput :
           \E q \in SeqsUpTo(ContentPieces, n),
              targetKeywords \in SeqsUpTo(TargetPool, MaxInput - n) :
               MockCall(Flatten(q), targetKeywords)

\* a long content and up to MaxRun target keywords that all occur in it
MockAnalysisRun ==
    /\ Idle
    /\ \E n \in 0..MaxRun, content \in {RunContent(MaxRun), RunWordContent(MaxRun)} :
           MockCall(content, RunTargets(n))

\* the examples of the specification
MockAnalysisExample ==
    /\ Idle
    /\ \E e \in Examples : MockCall(e.content, e.targets)

CheckCall(keyword, arg, ext) ==
    /\ check' = [called |-> TRUE, keyword |-> keyword, arg |-> arg, ext |-> ext,
                 resultsToUse |-> defaultResultsToUse(arg, results),
                 status |-> checkKeywordStatus(keyword,
                                               defaultResultsToUse(arg, results), ext)]
    /\ UNCHANGED <<results, response, mock>>

\* checkKeywordStatus(keyword, mockResults) for a target keyword
CheckMockResults ==
    /\ mock.called
    /\ ~check.called
    /\ mock.out.kind = "object"
    /\ \E i \in 1..Len(mock.targetKeywords), ext \in Externals :
           CheckCall(mock.targetKeywords[i], mock.out, ext)

\* checkKeywordStatus(keyword)
CheckHookResults ==
    /\ Idle
    /\ \E keyword \in KeywordPool, ext \in Externals :
           CheckCall(keyword, Undefined, ext)

\* checkKeywordStatus(keyword, null)
CheckNull ==
    /\ Idle
    /\ \E keyword \in KeywordPool, ext \in Externals : CheckCall(keyword, Null, ext)

Next == GenerateMockResponse \/ MockAnalysis \/ MockAnalysisRun \/ MockAnalysisExample

Spec == Init /\ [][Next]_vars

NextRoundTrip ==
    MockAnalysis \/ MockAnalysisRun \/ MockAnalysisExample \/ CheckMockResults

SpecRoundTrip == InitRoundTrip /\ [][NextRoundTrip]_vars

NextClassify == CheckHookResults \/ CheckNull

SpecClassify == InitClassify /\ [][NextClassify]_vars

(***************************************************************************)
(* What the claims speak of, stated without the regular expressions of the *)
(* code.                                                                   *)
(***************************************************************************)
FivePunctuation == {",", ".", ";", "!", "?"}

\* punctuation marks at large
PunctuationMarks ==
    FivePunctuation \cup {":", "-", "(", ")", "[", "]", "{", "}", "'", "\"", "/"}

\* the trimmed lower-cased keyword occurs somewhere in the lower-cased content
OccursIn(keyword, content) ==
    includes(toLowerCase(content), trim(toLowerCase(keyword)))

\* ... and occurs with the start, the end or a delimiter on both sides
DelimitedIn(keyword, content, delimiters) ==
    LET k == trim(toLowerCase(keyword))
        c == toLowerCase(content)
    IN  \E p \in 0..(Len(c) - Len(k)) :
            /\ OccursAt(c, k, p)
            /\ (p = 0 \/ c[p] \in delimiters)
            /\ (p + Len(k) = Len(c) \/ c[p + Len(k) + 1] \in delimiters)

Outcome(keyword, content, delimiters) ==
    IF DelimitedIn(keyword, content, delimiters) THEN "exact"
    ELSE IF OccursIn(keyword, content) THEN "partial"
    ELSE "none"

\* the keyword entries the target keywords yield, in input order
ExpectedEntries(targets, content, delimiters) ==
    LET hits == SelectSeq(targets, LAMBDA kw : Outcome(kw, content, delimiters) # "none")
    IN  [i \in 1..Len(hits) |->
            IF Outcome(hits[i], content, delimiters) = "exact"
            THEN [text |-> hits[i], relevance |-> 95, count |-> 1]
            ELSE [text |-> hits[i] \o PARTIAL, relevance |-> 80, count |-> 1]]

\* the entities the target keywords yield, in input order
ExpectedTargetEntities(targets, content, delimiters) ==
    LET hits == SelectSeq(targets,
                          LAMBDA kw : /\ Outcome(kw, content, delimiters) = "exact"
                                      /\ includes(toLowerCase(kw), BRAS))
    IN  [i \in 1..Len(hits) |->
            [type |-> "ProductType", text |-> hits[i], relevance |-> 95,
             confidence |-> 90, count |-> 1]]

\* the phrases of one to three words of the content, in scan order
PhraseSlots(words) ==
    [n \in 1..(Len(words) * 3) |->
        LET i == (n - 1) \div 3
            j == ((n - 1) % 3) + 1
        IN  [n |-> n, ok |-> i + j <= Len(words),
             text |-> IF i + j <= Len(words)
                      THEN join(SubSeq(words, i + 1, i + j)) ELSE <<>>]]

\* the entities the phrases yield: each phrase of three characters or more
\* that contains "bras", at its first occurrence, unless a target keyword's
\* entry already has its text
ExpectedPhraseEntities(targets, content, delimiters) ==
    LET slots == PhraseSlots(split(content))
        entries == ExpectedEntries(targets, content, delimiters)
        hits == SelectSeq(slots,
                    LAMBDA sl :
                        /\ sl.ok
                        /\ Len(sl.text) >= 3
                        /\ includes(toLowerCase(sl.text), BRAS)
                        /\ ~ \E m \in 1..(sl.n - 1) :
                               /\ slots[m].ok
                               /\ toLowerCase(slots[m].text) = toLowerCase(sl.text)
                        /\ ~ \E k \in 1..Len(entries) :
                               toLowerCase(entries[k].text) = toLowerCase(sl.text))
    IN  [i \in 1..Len(hits) |->
            [type |-> "ProductType", text |-> hits[i].text, relevance |-> 70,
             confidence |-> 80, count |-> 1]]

Delimiters == WhiteSpace \cup FivePunctuation

MockReturned == mock.called /\ mock.out.kind = "object"

\* the entries of the candidates that stand for a target keyword
OwnEntries(keyword) ==
    {c \in 1..Len(mock.candidates.keywords) :
        mock.candidates.keywords[c].text \in {keyword, keyword \o PARTIAL}}

Represented(keyword) ==
    \E k \in 1..Len(mock.out.keywords) :
        mock.out.keywords[k].text \in {keyword, keyword \o PARTIAL}

StrictlyHigher(c) ==
    {k \in 1..Len(mock.candidates.keywords) :
        mock.candidates.keywords[k].relevance > mock.candidates.keywords[c].relevance}

OthersAtLeast(c) ==
    {k \in 1..Len(mock.candidates.keywords) :
        /\ k # c
        /\ mock.candidates.keywords[k].relevance >= mock.candidates.keywords[c].relevance}

(***************************************************************************)
(* The claims about mockAnalysisForKeywords and generateMockResponse.      *)
(***************************************************************************)
\* C1, as stated: a target keyword that occurs in the content is in the
\* returned keywords list, as itself or with " (partial)", unless at least
\* 15 candidates have a strictly higher relevance.
C1_DroppedOnlyBelowFifteenHigher ==
    MockReturned =>
        \A i \in 1..Len(mock.targetKeywords) :
            LET kw == mock.targetKeywords[i]
            IN  OccursIn(kw, mock.optimizedContent) =>
                    /\ OwnEntries(kw) # {}
                    /\ \/ Represented(kw)
                       \/ \E c \in OwnEntries(kw) : Cardinality(StrictlyHigher(c)) >= 15

\* C1, amended: a target keyword that occurs in the content is in the
\* returned keywords list, as itself or with " (partial)", unless at least
\* 15 other candidates have a relevance higher than or equal to its own.
C1_DroppedOnlyBelowFifteenOthers ==
    MockReturned =>
        \A i \in 1..Len(mock.targetKeywords) :
            LET kw == mock.targetKeywords[i]
            IN  OccursIn(kw, mock.optimizedContent) =>
                    /\ OwnEntries(kw) # {}
                    /\ \/ Represented(kw)
                       \/ \E c \in OwnEntries(kw) : Cardinality(OthersAtLeast(c)) >= 15

\* a target keyword that occurs in the content was cut off by the top 15
C1_Witness ==
    /\ MockReturned
    /\ \E i \in 1..Len(mock.targetKeywords) :
           /\ OccursIn(mock.targetKeywords[i], mock.optimizedContent)
           /\ ~ Represented(mock.targetKeywords[i])

\* C2: mockAnalysisForKeywords returns a result object whatever the source
\* results are, and with no source entities the returned entities are the
\* discovered ones.
C2_AlwaysReturnsAnObject ==
    mock.called =>
        /\ mock.out.kind = "object"
        /\ (IsNullish(results) \/ "entities" \notin results.has)
               => mock.out.entities = mock.candidates.entities

\* C3, as stated: a generated response has a keywords list and an entities
\* list whatever the features, and so has a returned mock analysis.
C3_ListsNeverAbsent ==
    /\ response.called => {"keywords", "entities"} \subseteq response.out.has
    /\ MockReturned => {"keywords", "entities"} \subseteq mock.out.has

\* C3, amended: a generated response has a keywords list exactly when the
\* keywords feature is on and an entities list exactly when the entities
\* feature is on; a returned mock analysis has both lists.
C3_ListsFollowFeatures ==
    /\ response.called =>
           /\ ("keywords" \in response.out.has) <=> ("keywords" \in response.features)
           /\ ("entities" \in response.out.has) <=> ("entities" \in response.features)
    /\ MockReturned => {"keywords", "entities"} \subseteq mock.out.has

\* a response generated with the keywords feature off and the entities
\* feature on
C3_Witness ==
    /\ response.called
    /\ "keywords" \notin response.features
    /\ "entities" \in response.features
    /\ response.out.entities # <<>>

\* C7: the returned entities are those of the target keywords in input
\* order, then those of the phrases in scan order, then the source's own.
C7_DiscoveredBeforeSource ==
    MockReturned =>
        mock.out.entities =
            ExpectedTargetEntities(mock.targetKeywords, mock.optimizedContent, Delimiters)
            \o ExpectedPhraseEntities(mock.targetKeywords, mock.optimizedContent, Delimiters)
            \o (IF "entities" \in results.has THEN results.entities ELSE <<>>)

\* an entity of a target keyword, an entity of a phrase and source entities
C7_Witness ==
    /\ MockReturned
    /\ ExpectedTargetEntities(mock.targetKeywords, mock.optimizedContent, Delimiters) # <<>>
    /\ ExpectedPhraseEntities(mock.targetKeywords, mock.optimizedContent, Delimiters) # <<>>
    /\ "entities" \in results.has
    /\ results.entities # <<>>

\* the candidates start with what the target keywords yield under the given
\* delimiters, and all that follows comes from the phrases
TargetOutcomes(delimiters) ==
    LET entries == ExpectedEntries(mock.targetKeywords, mock.optimizedContent, delimiters)
        entities ==
            ExpectedTargetEntities(mock.targetKeywords, mock.optimizedContent, delimiters)
        cand == mock.candidates
    IN  /\ Len(cand.keywords) >= Len(entries)
        /\ SubSeq(cand.keywords, 1, Len(entries)) = entries
        /\ \A k \in (Len(entries) + 1)..Len(cand.keywords) : cand.keywords[k].relevance < 80
        /\ Len(cand.entities) >= Len(entities)
        /\ SubSeq(cand.entities, 1, Len(entities)) = entities
        /\ \A k \in (Len(entities) + 1)..Len(cand.entities) : cand.entities[k].relevance < 95

Variants(s) ==
    {s, toUpperCase(s), toLowerCase(s), trim(s), <<" ">> \o s, s \o <<" ">>}

\* C4: replacing the keyword, the text of a keyword entry or the text of an
\* entity by a variant that differs only in letter case or in leading or
\* trailing white space leaves the returned match tier unchanged.
C4_TierIgnoresCaseAndOuterSpace ==
    (check.called /\ check.resultsToUse.kind = "object") =>
        LET r == check.resultsToUse
        IN  /\ \A k \in Variants(check.keyword) :
                   checkKeywordStatus(k, r, check.ext) = check.status
            /\ \A i \in 1..Len(r.keywords) : \A t \in Variants(r.keywords[i].text) :
                   checkKeywordStatus(check.keyword,
                                      [r EXCEPT !.keywords[i].text = t], check.ext)
                       = check.status
            /\ \A i \in 1..Len(r.entities) : \A t \in Variants(r.entities[i].text) :
                   checkKeywordStatus(check.keyword,
                                      [r EXCEPT !.entities[i].text = t], check.ext)
                       = check.status

\* the trimmed lower-cased keyword occurs in the lower-cased text with no
\* letter, digit or underscore next to it
WholeWordIn(keyword, text) ==
    LET k == trim(toLowerCase(keyword))
        c == toLowerCase(text)
    IN  /\ k # <<>>
        /\ \E p \in 0..(Len(c) - Len(k)) :
               /\ OccursAt(c, k, p)
               /\ (p = 0 \/ ~ IsWordChar(c[p]))
               /\ (p + Len(k) = Len(c) \/ ~ IsWordChar(c[p + Len(k) + 1]))

\* C5: a keyword whose lower-cased form contains "bras" is classified
\* "exact" against every result that has a keywords list and whose
\* optimizedText contains the keyword as a whole word, case-insensitively.
C5_DomainBypass ==
    ( /\ check.called
      /\ check.resultsToUse.kind = "object"
      /\ "keywords" \in check.resultsToUse.has
      /\ "optimizedText" \in check.resultsToUse.has
      /\ includes(toLowerCase(check.keyword), BRAS)
      /\ WholeWordIn(check.keyword, check.resultsToUse.optimizedText) )
        => check.status = "exact"

\* C6: the tier is "missing" when the result is absent, when the result has
\* no keywords field and when the keyword is the empty string.
C6_MissingInputs ==
    ( /\ check.called
      /\ \/ check.resultsToUse.kind # "object"
         \/ "keywords" \notin check.resultsToUse.has
         \/ check.keyword = <<>> )
        => check.status = "missing"

\* a "bras" keyword classified against a result without a keywords field
\* whose optimizedText has the keyword as a whole word and whose entities
\* contain it
C6_Witness ==
    /\ check.called
    /\ check.resultsToUse.kind = "object"
    /\ "keywords" \notin check.resultsToUse.has
    /\ includes(toLowerCase(check.keyword), BRAS)
    /\ WholeWordIn(check.keyword, optimizedTextOf(check.resultsToUse))
    /\ \E i \in 1..Len(check.resultsToUse.entities) :
           toLowerCase(check.resultsToUse.entities[i].text) = trim(toLowerCase(check.keyword))
    /\ check.status = "missing"

\* the text of some keyword entry contains the keyword, or the keyword the text
EntryContains ==
    \E i \in 1..Len(check.resultsToUse.keywords) :
        LET text == trim(toLowerCase(check.resultsToUse.keywords[i].text))
            k == trim(toLowerCase(check.keyword))
        IN  includes(text, k) \/ includes(k, text)

\* the text of some entity contains the keyword, or the keyword the text
EntityContains ==
    /\ "entities" \in check.resultsToUse.has
    /\ \E i \in 1..Len(check.resultsToUse.entities) :
           LET text == toLowerCase(check.resultsToUse.entities[i].text)
               k == trim(toLowerCase(check.keyword))
           IN  includes(text, k) \/ includes(k, text)

\* C9: for a non-empty keyword and a result with a keywords list the first
\* matching rule wins: the entity rule gives "exact" only after the domain
\* rule, the exact match, the partial match, the substring rule and the
\* top-10 rule have failed; a substring match without exact or domain match
\* gives "partial" even if an entity matches; "relevant" is given only when
\* no keyword entry matches exactly, partially or by substring.
C9_FirstRuleWins ==
    ( /\ check.called
      /\ check.resultsToUse.kind = "object"
      /\ "keywords" \in check.resultsToUse.has
      /\ check.keyword # <<>> )
        => LET r == check.resultsToUse
               domain == directTextMatch(trim(toLowerCase(check.keyword)),
                                         optimizedTextOf(r))
               exact == exactKeywordMatch(check.keyword, r.keywords)
               partial == partialKeywordMatch(check.keyword, r.keywords, check.ext)
               top == isKeywordInTopPositions(check.keyword, r.keywords,
                                              TopPositions, check.ext)
           IN  /\ check.status = "exact" <=>
                      \/ domain
                      \/ exact
                      \/ (~ partial /\ ~ EntryContains /\ ~ top /\ EntityContains)
               /\ (EntryContains /\ ~ exact /\ ~ domain) => check.status = "partial"
               /\ check.status = "relevant" =>
                      (~ exact /\ ~ partial /\ ~ EntryContains)
               /\ check.status = "relevant" <=>
                      (~ domain /\ ~ exact /\ ~ partial /\ ~ EntryContains /\ top)
               /\ check.status = "missing" <=>
                      /\ ~ domain /\ ~ exact /\ ~ partial
                      /\ ~ EntryContains /\ ~ top /\ ~ EntityContains

\* "partial" by the substring rule alone while an entity contains the keyword
C9_Witness ==
    /\ check.called
    /\ check.resultsToUse.kind = "object"
    /\ "keywords" \in check.resultsToUse.has
    /\ check.keyword # <<>>
    /\ ~ check.ext.partial
    /\ EntryContains
    /\ EntityContains
    /\ check.status = "partial"

\* C10: with at most 15 target keywords, a target keyword that is not empty
\* after trimming and for which the mock analysis added the 0.95 entry is
\* classified "exact" against the result the mock analysis returned.
C10_RoundTrip ==
    ( /\ mock.called
      /\ check.called
      /\ check.arg = mock.out
      /\ Len(mock.targetKeywords) <= 15
      /\ trim(check.keyword) # <<>>
      /\ \E c \in 1..Len(mock.candidates.keywords) :
             mock.candidates.keywords[c] =
                 [text |-> check.keyword, relevance |-> 95, count |-> 1] )
        => check.status = "exact"

\* 15 target keywords matched as whole words, more candidates than the top
\* 15 hold, and one of the target keywords classified
C10_Witness ==
    /\ mock.called
    /\ check.called
    /\ check.arg = mock.out
    /\ Len(mock.targetKeywords) = 15
    /\ Len(mock.candidates.keywords) > 15
    /\ trim(check.keyword) # <<>>
    /\ \E c \in 1..Len(mock.candidates.keywords) :
           mock.candidates.keywords[c] =
               [text |-> check.keyword, relevance |-> 95, count |-> 1]
    /\ check.status = "exact"

=============================================================================
